---- MODULE Spec2Model ----
(***************************************************************************)
(* Ball-on-plate control software: the two-axis PID controller             *)
(* (src/src/pid/position_feedback.py), the ball locator                    *)
(* (src/src/computer_vision/ball_detection.py) and the orchestrator        *)
(* (src/src/core/main.py).                                                 *)
(*                                                                         *)
(* Numbers.  The code computes in floating point; the model computes the   *)
(* same expressions exactly, in fixed point:                               *)
(*   - positions and errors: whole centimetres;                            *)
(*   - gains kp, ki, kd: hundredths;                                       *)
(*   - dt = 0.1, the integral accumulators: tenths of a cm.s;              *)
(*   - the terms p, d, i and the control signal u: thousandths of a        *)
(*     degree;                                                             *)
(*   - an angle in radians: a multiple of pi/360000, so that one           *)
(*     thousandth of a degree is 2 such units.                             *)
(* A magnitude sqrt(m) is irrational in general.  A real x that comes out  *)
(* of a square root is therefore carried as its signed square              *)
(* SSq(x) = sign(x) * x^2, which is strictly increasing in x, so that      *)
(* every comparison, min and max of the code is the same comparison, min   *)
(* and max on the signed squares.  A component u/|u| of the direction is   *)
(* carried as the fraction <<sign(u) * u^2, |u|^2>>.                       *)
(***************************************************************************)
EXTENDS Integers, Sequences, FiniteSets, TLC

VARIABLES
    controller,   \* the pid.Controller object: its fields
    calc,         \* the locals and the return value of the last calculate call
    calls,        \* number of calculate calls made on the controller
    ball_detector,\* the computer_vision.BallDetector object: its fields
    loc,          \* the outcome of the last get_ball_position_plate_view call
    main          \* main(): where it is, its locals, and the two serial links

pid_vars == <<controller, calc, calls>>
cv_vars == <<ball_detector, loc>>
vars == <<controller, calc, calls, ball_detector, loc, main>>

---------------------------------------------------------------------------
(* Bounds of the model *)

\* longest sequence of controller operations explored
MaxCalls == 2
\* number of consecutive identical calculate calls made by one Sustain step
RunLen == 21
\* plate coordinates (cm) offered as actual positions
PlateCm == -1 .. 1
\* most cycles of the control loop explored
MaxCycles == 2
\* most messages the actuator controller sends during homing
MaxMsgs == 2
\* most motors the geometry solver answers for
MaxMotors == 2
\* most consecutive camera reads whose results are fixed for one locator call
MaxReads == 2
\* desired positions offered (cm)
Targets == {<<0, 0>>, <<1, 1>>, <<-1, 0>>}
\* largest |desired - actual| per axis offered to calculate (cm)
ErrCm == -1 .. 1

---------------------------------------------------------------------------
(* Arithmetic helpers *)

Abs(x) == IF x < 0 THEN -x ELSE x
Min(a, b) == IF a <= b THEN a ELSE b
Max(a, b) == IF a >= b THEN a ELSE b
\* the signed square of x: the code's real x, carried as sign(x) * x^2
SSq(x) == IF x >= 0 THEN x * x ELSE -(x * x)

---------------------------------------------------------------------------
(* src/src/pid/position_feedback.py *)

\* math.pi, in the unit of angles in radians (pi/360000).
\* math.radians on a signed square: degrees -> radians is x * pi/180; one
\* thousandth of a degree is pi/180000, and the square takes the factor twice.
PI == 360000
radians(sq) == sq * (PI \div 180000) * (PI \div 180000)

\* MIN_ANGLE_TO_MOVE = math.radians(0.5)
MIN_ANGLE_TO_MOVE == radians(SSq(500))

\* saturate(control, sat_min, sat_max) = max(min(sat_max, control), sat_min)
saturate_unbounded(control, sat_min, sat_max) == control
saturate(control, sat_min, sat_max) == Max(Min(sat_max, control), sat_min)

\* thousandths of a degree
SAT_MAX_DEGREES == 8250
SAT_MIN_DEGREES == 0

\* thousandths
INTEGRAL_BOUND == 400

\* PID_Parameters(kp, ki, kd), in hundredths
PID_Parameters(kp, ki, kd) == [kp |-> kp, ki |-> ki, kd |-> kd]

\* class PID_Mode(Enum): the two gain presets
PID_Mode ==
    [DisturbanceRejection |-> PID_Parameters(80, 1, 55),
     PathPlanning |-> PID_Parameters(80, 10, 120)]

PID_ModeNames == DOMAIN PID_Mode

\* Controller.__init__(pid_mode, print_errors, dead_zone); print_errors only
\* switches a print and is left out.
Controller__init__(pid_mode, dead_zone) ==
    [kp |-> PID_Mode[pid_mode].kp,
     ki |-> PID_Mode[pid_mode].ki,
     kd |-> PID_Mode[pid_mode].kd,
     prev_e_x |-> 0,
     prev_e_y |-> 0,
     int_x |-> 0,
     int_y |-> 0,
     dead_zone |-> dead_zone]

\* "Calculate derivative term": kd * ((e - prev_e) / dt) with dt = 0.1, in
\* thousandths (kd is in hundredths)
derivative_times_dt(kd, e, prev_e) == kd * (e - prev_e)
derivative(kd, e, prev_e) == kd * ((e - prev_e) * 10) * 10

\* "Calculate integral term": self.int_x += e_x * self.dt, in tenths (dt = 0.1)
integrate_within_bound(int, e) == Max(Min(int + e, 40), -40)
integrate(int, e) == int + e

\* "prevent windup": the if / elif on one axis
clamp_upper_only(i) == IF i > INTEGRAL_BOUND THEN INTEGRAL_BOUND ELSE i
prevent_windup(i) ==
    IF i > INTEGRAL_BOUND THEN INTEGRAL_BOUND
    ELSE IF i < -INTEGRAL_BOUND THEN -INTEGRAL_BOUND
    ELSE i

\* "Calculate the unit vector components": <<dir_x, dir_y>>, each u / theta_mag
\* as the fraction <<signed square of u, theta_mag^2>>, or 0 = <<0, 1>>.
unit_vector_x_twice(u_x, u_y, theta_mag_sq) ==
    IF theta_mag_sq # 0
    THEN <<<<SSq(u_x), theta_mag_sq>>, <<SSq(u_x), theta_mag_sq>>>>
    ELSE <<<<0, 1>>, <<0, 1>>>>
unit_vector(u_x, u_y, theta_mag_sq) ==
    IF theta_mag_sq # 0
    THEN <<<<SSq(u_x), theta_mag_sq>>, <<SSq(u_y), theta_mag_sq>>>>
    ELSE <<<<0, 1>>, <<0, 1>>>>

\* "if self.dead_zone and sat_theta_mag < MIN_ANGLE_TO_MOVE: sat_theta_mag = 0"
dead_zone_ignored(dead_zone, sat_theta_mag) == sat_theta_mag
dead_zone_suppress(dead_zone, sat_theta_mag) ==
    IF dead_zone /\ sat_theta_mag < MIN_ANGLE_TO_MOVE THEN 0 ELSE sat_theta_mag

\* "Update error": the value stored in prev_e_x / prev_e_y
update_error(prev_e, e) == e

\* Controller.calculate(desired_pos, actual_pos) on controller c: the new
\* fields of the controller, the locals, and the returned triple.
calculate(c, desired_pos, actual_pos) ==
    LET x_r == desired_pos[1]
        y_r == desired_pos[2]
        x == actual_pos[1]
        y == actual_pos[2]
        e_x == x_r - x
        e_y == y_r - y
        p_x == c.kp * e_x * 10
        p_y == c.kp * e_y * 10
        d_x == derivative(c.kd, e_x, c.prev_e_x)
        d_y == derivative(c.kd, e_y, c.prev_e_y)
        int_x == integrate(c.int_x, e_x)
        int_y == integrate(c.int_y, e_y)
        raw_i_x == c.ki * int_x
        raw_i_y == c.ki * int_y
        i_x == prevent_windup(raw_i_x)
        i_y == prevent_windup(raw_i_y)
        u_x == p_x + d_x + i_x
        u_y == p_y + d_y + i_y
        theta_mag_sq == u_x * u_x + u_y * u_y
        dir == unit_vector(u_x, u_y, theta_mag_sq)
        sat_theta_mag ==
            radians(saturate(theta_mag_sq, SSq(SAT_MIN_DEGREES), SSq(SAT_MAX_DEGREES)))
        out_theta == dead_zone_suppress(c.dead_zone, sat_theta_mag)
    IN  [self |-> [c EXCEPT !.int_x = int_x,
                            !.int_y = int_y,
                            !.prev_e_x = update_error(c.prev_e_x, e_x),
                            !.prev_e_y = update_error(c.prev_e_y, e_y)],
         desired_pos |-> desired_pos,
         actual_pos |-> actual_pos,
         e |-> <<e_x, e_y>>,
         p |-> <<p_x, p_y>>,
         d |-> <<d_x, d_y>>,
         raw_i |-> <<raw_i_x, raw_i_y>>,
         i |-> <<i_x, i_y>>,
         u |-> <<u_x, u_y>>,
         theta_mag_sq |-> theta_mag_sq,
         sat_theta_mag |-> sat_theta_mag,
         ret |-> <<dir[1], dir[2], out_theta>>]

\* n consecutive calculate calls with the same arguments: the result of the last
RECURSIVE calculate_n(_, _, _, _)
calculate_n(c, desired_pos, actual_pos, n) ==
    IF n = 1 THEN calculate(c, desired_pos, actual_pos)
    ELSE calculate_n(calculate(c, desired_pos, actual_pos).self,
                     desired_pos, actual_pos, n - 1)

\* the locals of a call that has not happened
NoCall == [made |-> FALSE]

\* the record kept of a calculate call r: its locals and return value, the
\* controller before it, the number n of identical calls it ended, and the
\* sum of the errors of all the calls made on the controller (old: the record
\* of the call before)
CalcRecord(r, before, n, old) ==
    [f \in DOMAIN r \ {"self"} |-> r[f]] @@
    [made |-> TRUE,
     before |-> before,
     n |-> n,
     sum_e |-> IF old.made
               THEN <<old.sum_e[1] + n * r.e[1], old.sum_e[2] + n * r.e[2]>>
               ELSE <<n * r.e[1], n * r.e[2]>>]

---------------------------------------------------------------------------
(* src/src/computer_vision/ball_detection.py *)

\* self.RES_WIDTH, self.RES_HEIGHT
RES_WIDTH == 480
RES_HEIGHT == 480

\* the attribute self.last_ball_position does not exist
Unset == <<>>

\* BallDetector.__init__(camera_index, preview, memory); preview only switches
\* the preview window and is left out.  cap_open: the VideoCapture is held.
BallDetector__init__off_centre(memory) ==
    [memory |-> memory,
     last_ball_position |-> IF memory THEN <<16, 0>> ELSE Unset,
     cap_open |-> TRUE]
BallDetector__init__(memory) ==
    [memory |-> memory,
     last_ball_position |-> IF memory THEN <<0, 0>> ELSE Unset,
     cap_open |-> TRUE]

\* computer_vision.transforms.scale_pixels_to_centimeters(pixels, RES_HEIGHT):
\* a pixel offset scaled by the plate size over the frame dimension
PLATE_SIZE_CM == 30
scale_pixels_to_centimeters(pixels, frame_dimension) ==
    <<(pixels[1] * PLATE_SIZE_CM) \div frame_dimension,
      (pixels[2] * PLATE_SIZE_CM) \div frame_dimension>>

\* computer_vision.transforms.camera_view_to_plate_view(position): the camera
\* looks at the plate from below, the x axis is mirrored
camera_view_to_plate_view(position) == <<-position[1], position[2]>>

\* the detector found no circle: circles is None
NoCircle == <<>>

\* "self.last_ball_position = (relative_x, relative_y)" on a detection
remember_first_only(d, relative) ==
    IF d.last_ball_position = Unset \/ d.last_ball_position = <<0, 0>>
    THEN [d EXCEPT !.last_ball_position = relative]
    ELSE d
remember(d, relative) == [d EXCEPT !.last_ball_position = relative]

\* the elif / else of a detection miss: the remembered offset, or (0, 0)
miss_position(d) == IF d.memory THEN d.last_ball_position ELSE <<0, 0>>

\* cv2.VideoCapture.read() returns the pair (retval, image): (True, frame) when
\* a frame was grabbed, (False, None) when none is available
NoFrame == "None"
cap_read == {<<"True", "frame">>, <<"False", NoFrame>>}

\* BallDetector._get_frame(): "ret = None; while ret is None: ret, frame =
\* self.cap.read(); return frame".  reads: the results of the successive
\* cap.read() calls, the first at the head.  The loop goes on while ret is
\* None; a retval of cap.read() is True or False, never None.
RECURSIVE _get_frame(_)
_get_frame(reads) ==
    LET ret == Head(reads)[1]
        frame == Head(reads)[2]
    IN  IF ret = "None" THEN _get_frame(Tail(reads)) ELSE frame

\* the number of cap.read() calls _get_frame makes before it returns
RECURSIVE reads_made(_)
reads_made(reads) ==
    IF Head(reads)[1] = "None" THEN 1 + reads_made(Tail(reads)) ELSE 1

\* BallDetector._get_circle_coord_in_pixels() on detector d, for a frame and
\* the detector's answer circle (the first circle's centre, or NoCircle):
\* the new fields of the detector and the returned offset, or the exception
_get_circle_coord_in_pixels(d, frame, circle) ==
    IF frame = NoFrame
    THEN [self |-> d, raised |-> "AttributeError",
          detected |-> FALSE, ret |-> Unset]
    ELSE LET center_x == RES_WIDTH \div 2
             center_y == RES_HEIGHT \div 2
         IN  IF circle # NoCircle
             THEN LET relative == <<center_x - circle[1], center_y - circle[2]>>
                  IN  [self |-> remember(d, relative), raised |-> "",
                       detected |-> TRUE, ret |-> relative]
             ELSE [self |-> d, raised |-> "",
                   detected |-> FALSE, ret |-> miss_position(d)]

\* BallDetector.get_ball_position_plate_view(), through
\* _get_ball_position_camera_view
get_ball_position_plate_view(d, frame, circle) ==
    LET r == _get_circle_coord_in_pixels(d, frame, circle)
    IN  IF r.raised # "" THEN r
        ELSE [r EXCEPT !.ret = camera_view_to_plate_view(
                                   scale_pixels_to_centimeters(r.ret, RES_HEIGHT))]

\* BallDetector.close_stream(): "self.cap.release()"; destroyAllWindows only
\* closes the preview window and is left out
close_stream(d) == [d EXCEPT !.cap_open = FALSE]

\* what the camera answers to the successive reads of one call
CameraReads == UNION {[1 .. n -> cap_read] : n \in 1 .. MaxReads}

\* circle centres (pixels) the detector may report
CircleCentres == {224, 240, 256} \X {224, 240, 256}

PositionPairs ==
    {pr \in Targets \X (PlateCm \X PlateCm) :
        /\ pr[1][1] - pr[2][1] \in ErrCm
        /\ pr[1][2] - pr[2][2] \in ErrCm}

---------------------------------------------------------------------------
(* src/src/core/main.py *)

\* "HOME", as ASCII bytes
HOMING_COMPLETED_STRING == <<72, 79, 77, 69>>

\* theta_rad is a magnitude: carried as its signed square
PLATFORM_TILT_MIN_RAD == SSq(0)
PLATFORM_TILT_MAX_RAD == SSq(PI \div 12)

\* motor angles are carried as they are, in units of pi/360000
MOTOR_MIN_RAD == -(PI \div 2)
MOTOR_MAX_RAD == PI \div 2

\* class OperationMode(Enum)
OperationMode == {"COMPUTER_VISION", "WASD_JOYSTICK", "ARDUINO_JOYSTICK"}

\* no object
NoObject == [constructed |-> FALSE]

\* def __init__(self, pid_mode: PID_Mode, print_errors=False, dead_zone=False):
\* the parameters, and those that have a default
Controller_parameters == {"pid_mode", "print_errors", "dead_zone"}
Controller_defaults == [print_errors |-> FALSE, dead_zone |-> FALSE]

\* the call pid.Controller(**kwargs): the arguments are bound to the
\* parameters, a parameter left without a value raises TypeError
Controller__call__(kwargs) ==
    LET bound == kwargs @@ Controller_defaults
    IN  IF Controller_parameters \subseteq DOMAIN bound
        THEN [raised |-> "",
              obj |-> Controller__init__(bound["pid_mode"], bound["dead_zone"])]
        ELSE [raised |-> "TypeError", obj |-> NoObject]

\* "controller = pid.Controller()": main passes no argument
main_Controller_kwargs == [name \in {} |-> FALSE]

\* "ball_detector = computer_vision.BallDetector()": memory=False by default
main_BallDetector_memory == FALSE

\* "target_position_plate_view = (0.0, 0.0)": the desired position, in cm
target_position_off_centre == <<1, 0>>
target_position_plate_view == <<0, 0>>

\* bytes.decode("ascii") raises UnicodeDecodeError on a byte above 127
is_ascii(bytes) == \A k \in 1 .. Len(bytes) : bytes[k] < 128

\* str.strip(): leading and trailing ASCII whitespace removed
Whitespace == {9, 10, 11, 12, 13, 28, 29, 30, 31, 32}
RECURSIVE lstrip(_)
lstrip(str) ==
    IF str # <<>> /\ Head(str) \in Whitespace THEN lstrip(Tail(str)) ELSE str
RECURSIVE rstrip(_)
rstrip(str) ==
    IF str # <<>> /\ str[Len(str)] \in Whitespace
    THEN rstrip(SubSeq(str, 1, Len(str) - 1))
    ELSE str
strip(str) == lstrip(rstrip(str))

\* serial.Serial.read(size=1) with timeout=1: up to size bytes of the input
\* buffer, fewer (none) when the timeout passes first
read_size == 1
read(buffer, size) == SubSeq(buffer, 1, Min(size, Len(buffer)))

\* "motor_serial.read()": main passes no size
motor_serial_read(buffer) == read(buffer, read_size)

\* "homing_string.decode("ascii").strip() == HOMING_COMPLETED_STRING"
is_homing_completed(homing_string) == strip(homing_string) = HOMING_COMPLETED_STRING

\* "assert PLATFORM_TILT_MIN_RAD <= theta_rad <= PLATFORM_TILT_MAX_RAD"
tilt_assert_strict(theta_rad) ==
    PLATFORM_TILT_MIN_RAD < theta_rad /\ theta_rad < PLATFORM_TILT_MAX_RAD
tilt_assert(theta_rad) ==
    PLATFORM_TILT_MIN_RAD <= theta_rad /\ theta_rad <= PLATFORM_TILT_MAX_RAD

\* "assert MOTOR_MIN_RAD <= angle <= MOTOR_MAX_RAD"
angle_assert_strict(angle) == MOTOR_MIN_RAD < angle /\ angle < MOTOR_MAX_RAD
angle_assert(angle) == MOTOR_MIN_RAD <= angle /\ angle <= MOTOR_MAX_RAD

\* "for angle in abs_motor_angles: assert ..."
angles_assert_first_only(abs_motor_angles) == angle_assert(abs_motor_angles[1])
angles_assert(abs_motor_angles) ==
    \A k \in 1 .. Len(abs_motor_angles) : angle_assert(abs_motor_angles[k])

\* serial2py.read_wasd() and serial2py.read_arduino_joystick(arduino_serial):
\* the manual-input sources; any direction with any tilt may come back
ManualDirections == {<<<<0, 1>>, <<0, 1>>>>, <<<<1, 1>>, <<0, 1>>>>, <<<<-1, 2>>, <<1, 2>>>>}
ManualTilts ==
    {-1, 0, MIN_ANGLE_TO_MOVE, PLATFORM_TILT_MAX_RAD, PLATFORM_TILT_MAX_RAD + 1}
read_wasd == {<<dir[1], dir[2], theta>> : dir \in ManualDirections, theta \in ManualTilts}
read_arduino_joystick == read_wasd

\* inverse_kinematics.translate_dir_to_motor_angles(dir_x, dir_y, theta_rad):
\* the geometry solver; any sequence of angles may come back
MotorAngles ==
    {MOTOR_MIN_RAD - 1, MOTOR_MIN_RAD, 0, MOTOR_MAX_RAD, MOTOR_MAX_RAD + 1}
translate_dir_to_motor_angles(dir_x, dir_y, theta_rad) ==
    UNION {[1 .. n -> MotorAngles] : n \in 1 .. MaxMotors}

\* the fields of main: its locals, the two ends of the actuator link, and what
\* it has done: trace, the steps of the current cycle passed so far, and the
\* numbers of calls made to the locator, the solver and write_to_motors
NotStarted ==
    [entry |-> "none",
     pc |-> "none",
     operation_mode |-> "COMPUTER_VISION",
     homing_completed |-> FALSE,
     has_read |-> FALSE,
     homing_string |-> <<>>,
     rx |-> <<>>,
     sent |-> <<>>,
     cmd |-> <<>>,
     abs_motor_angles |-> <<>>,
     cycles |-> 0,
     trace |-> <<>>,
     locator_calls |-> 0,
     solver_calls |-> 0,
     write_calls |-> 0,
     written |-> <<>>,
     halt_at |-> ""]

\* where main is while in the Running state: the steps of one cycle
RunningPcs == {"obtain", "check_tilt", "solve", "check_angles", "dispatch"}

\* what the actuator controller may write on the link: the sentinel, bare or
\* as a line, a blank, line noise
LinkMessages ==
    {HOMING_COMPLETED_STRING,
     <<32>> \o HOMING_COMPLETED_STRING \o <<13, 10>>,
     <<72>>,
     <<10>>,
     <<255>>}

---------------------------------------------------------------------------
(* The controller on its own: constructed with either gain preset and either
   dead-zone setting, then called with any positions. *)

InitPID ==
    /\ \E pid_mode \in PID_ModeNames, dead_zone \in BOOLEAN :
          controller = Controller__init__(pid_mode, dead_zone)
    /\ calc = NoCall
    /\ calls = 0
    /\ ball_detector = BallDetector__init__(FALSE)
    /\ loc = NoCall
    /\ main = NotStarted

\* one call controller.calculate(desired_pos, actual_pos)
Calculate ==
    /\ calls < MaxCalls
    /\ \E pr \in PositionPairs :
          LET r == calculate(controller, pr[1], pr[2])
          IN  /\ controller' = r.self
              /\ calc' = CalcRecord(r, controller, 1, calc)
    /\ calls' = calls + 1
    /\ UNCHANGED <<cv_vars, main>>

\* the same call repeated RunLen times (the ball held still): sustained error
Sustain ==
    /\ calls < MaxCalls
    /\ \E pr \in PositionPairs :
          LET b == calculate_n(controller, pr[1], pr[2], RunLen - 1).self
              r == calculate(b, pr[1], pr[2])
          IN  /\ controller' = r.self
              /\ calc' = CalcRecord(r, b, RunLen, calc)
    /\ calls' = calls + 1
    /\ UNCHANGED <<cv_vars, main>>

NextPID == Calculate \/ Sustain

SpecPID == InitPID /\ [][NextPID]_vars

---------------------------------------------------------------------------
(* The ball locator on its own: constructed with memory on or off, then asked
   for positions; each call reads the camera once and runs the detector. *)

InitLocator ==
    /\ \E memory \in BOOLEAN : ball_detector = BallDetector__init__(memory)
    /\ loc = NoCall
    /\ controller = Controller__init__("PathPlanning", FALSE)
    /\ calc = NoCall
    /\ calls = 0
    /\ main = NotStarted

\* the record kept of a call r: its outcome, the detector before it, what the
\* camera answered to the reads the call made, the frame handed to the
\* detection, and the position returned by the most recent successful
\* detection so far
LocRecord(r, before, old, reads) ==
    [f \in DOMAIN r \ {"self"} |-> r[f]] @@
    [made |-> TRUE,
     before |-> before,
     reads |-> SubSeq(reads, 1, reads_made(reads)),
     frame |-> _get_frame(reads),
     last_success |->
         IF r.raised = "" /\ r.detected THEN r.ret
         ELSE IF old.made THEN old.last_success ELSE Unset]

\* one call ball_detector.get_ball_position_plate_view()
Locate ==
    /\ \E reads \in CameraReads, circle \in CircleCentres \cup {NoCircle} :
          LET r == get_ball_position_plate_view(ball_detector, _get_frame(reads), circle)
          IN  /\ ball_detector' = r.self
              /\ loc' = LocRecord(r, ball_detector, loc, reads)
    /\ UNCHANGED <<pid_vars, main>>

NextLocator == Locate

SpecLocator == InitLocator /\ [][NextLocator]_vars

---------------------------------------------------------------------------
(* The orchestrator, main(operation_mode).  It is entered at line 33; its
   two loops are also entered on their own, the handshake loop (line 41) as it
   is once both objects exist, and the control loop (line 47) as it is once
   homing_completed is set, so that each loop is explored whether or not the
   code before it lets main through.  The controller a loop is entered with
   has either gain preset and either dead-zone setting. *)

InitMain ==
    /\ calc = NoCall
    /\ calls = 0
    /\ loc = NoCall
    /\ \E operation_mode \in OperationMode :
          \/ /\ controller = NoObject
             /\ ball_detector = NoObject
             /\ main = [NotStarted EXCEPT !.entry = "main", !.pc = "main",
                                          !.operation_mode = operation_mode]
          \/ /\ \E pid_mode \in PID_ModeNames, dead_zone \in BOOLEAN :
                   controller = Controller__init__(pid_mode, dead_zone)
             /\ ball_detector = BallDetector__init__(main_BallDetector_memory)
             /\ \/ main = [NotStarted EXCEPT !.entry = "AwaitingHome",
                                             !.pc = "AwaitingHome",
                                             !.operation_mode = operation_mode]
                \/ main = [NotStarted EXCEPT !.entry = "Running",
                                             !.pc = "obtain",
                                             !.homing_completed = TRUE,
                                             !.operation_mode = operation_mode]

\* lines 37-41: the two constructors; then the handshake loop is entered
Main_Construct ==
    /\ main.pc = "main"
    /\ LET c == Controller__call__(main_Controller_kwargs)
       IN  IF c.raised # ""
           THEN /\ main' = [main EXCEPT !.pc = c.raised]
                /\ UNCHANGED <<controller, ball_detector>>
           ELSE /\ controller' = c.obj
                /\ ball_detector' = BallDetector__init__(main_BallDetector_memory)
                /\ main' = [main EXCEPT !.pc = "AwaitingHome"]
    /\ UNCHANGED <<calc, calls, loc>>

\* the actuator controller writes a message on the link during homing
Actuator_Sends ==
    /\ main.pc = "AwaitingHome"
    /\ Len(main.sent) < MaxMsgs
    /\ \E msg \in LinkMessages :
          main' = [main EXCEPT !.sent = Append(@, msg), !.rx = @ \o msg]
    /\ UNCHANGED <<pid_vars, cv_vars>>

\* lines 42-45: one iteration of "while not homing_completed"
Homing_Read ==
    /\ main.pc = "AwaitingHome"
    /\ LET homing_string == motor_serial_read(main.rx)
           rest == SubSeq(main.rx, Len(homing_string) + 1, Len(main.rx))
           m == [main EXCEPT !.homing_string = homing_string,
                             !.has_read = TRUE,
                             !.rx = rest]
       IN  IF homing_string = <<>> THEN main' = m
           ELSE IF ~is_ascii(homing_string)
           THEN main' = [m EXCEPT !.pc = "UnicodeDecodeError"]
           ELSE IF is_homing_completed(homing_string)
           THEN main' = [m EXCEPT !.homing_completed = TRUE, !.pc = "obtain"]
           ELSE main' = m
    /\ UNCHANGED <<pid_vars, cv_vars>>

\* main as a cycle starts.  The locals of the cycle before are dead (each is
\* assigned again before it is read) and are cleared, with the record of what
\* was written, to keep the state space small.
NewCycle ==
    [main EXCEPT !.cycles = @ + 1,
                 !.trace = <<"obtain">>,
                 !.cmd = <<>>,
                 !.abs_motor_angles = <<>>,
                 !.written = <<>>]

\* lines 49-63: the match on operation_mode
Cycle_Obtain ==
    /\ main.pc = "obtain"
    /\ main.cycles < MaxCycles
    /\ \/ /\ main.operation_mode = "COMPUTER_VISION"
          /\ \E reads \in CameraReads, circle \in CircleCentres \cup {NoCircle} :
                LET l == get_ball_position_plate_view(
                             ball_detector, _get_frame(reads), circle)
                    r == calculate(controller, target_position_plate_view, l.ret)
                IN  IF l.raised # ""
                    THEN /\ main' = [NewCycle EXCEPT !.pc = l.raised,
                                                     !.locator_calls = @ + 1]
                         /\ loc' = LocRecord(l, ball_detector, loc, reads)
                         /\ UNCHANGED <<ball_detector, pid_vars>>
                    ELSE /\ ball_detector' = l.self
                         /\ loc' = LocRecord(l, ball_detector, loc, reads)
                         /\ controller' = r.self
                         /\ calc' = CalcRecord(r, controller, 1, calc)
                         /\ calls' = calls + 1
                         /\ main' = [NewCycle EXCEPT !.pc = "check_tilt",
                                                     !.cmd = r.ret,
                                                     !.locator_calls = @ + 1]
       \/ /\ main.operation_mode = "WASD_JOYSTICK"
          /\ \E c \in read_wasd :
                main' = [NewCycle EXCEPT !.pc = "check_tilt", !.cmd = c]
          /\ UNCHANGED <<pid_vars, cv_vars>>
       \/ /\ main.operation_mode = "ARDUINO_JOYSTICK"
          /\ \E c \in read_arduino_joystick :
                main' = [NewCycle EXCEPT !.pc = "check_tilt", !.cmd = c]
          /\ UNCHANGED <<pid_vars, cv_vars>>

\* line 68: the assert on theta_rad
Cycle_CheckTilt ==
    /\ main.pc = "check_tilt"
    /\ IF tilt_assert(main.cmd[3])
       THEN main' = [main EXCEPT !.pc = "solve", !.trace = Append(@, "check_tilt")]
       ELSE main' = [main EXCEPT !.pc = "AssertionError", !.halt_at = "tilt"]
    /\ UNCHANGED <<pid_vars, cv_vars>>

\* lines 71-73: the geometry solver
Cycle_Solve ==
    /\ main.pc = "solve"
    /\ \E angles \in translate_dir_to_motor_angles(main.cmd[1], main.cmd[2], main.cmd[3]) :
          main' = [main EXCEPT !.pc = "check_angles",
                               !.trace = Append(@, "solve"),
                               !.abs_motor_angles = angles,
                               !.solver_calls = @ + 1]
    /\ UNCHANGED <<pid_vars, cv_vars>>

\* lines 74-75: the assert on every angle
Cycle_CheckAngles ==
    /\ main.pc = "check_angles"
    /\ IF angles_assert(main.abs_motor_angles)
       THEN main' = [main EXCEPT !.pc = "dispatch", !.trace = Append(@, "check_angles")]
       ELSE main' = [main EXCEPT !.pc = "AssertionError", !.halt_at = "angle"]
    /\ UNCHANGED <<pid_vars, cv_vars>>

\* line 77: py2motor.write_to_motors(motor_serial, abs_motor_angles); the
\* write goes through, or the link fails and the exception leaves main
Cycle_Dispatch ==
    /\ main.pc = "dispatch"
    /\ \E link_ok \in BOOLEAN :
          main' = [main EXCEPT !.pc = IF link_ok THEN "obtain" ELSE "SerialException",
                               !.trace = Append(@, "dispatch"),
                               !.write_calls = @ + 1,
                               !.written = main.abs_motor_angles]
    /\ UNCHANGED <<pid_vars, cv_vars>>

NextMain ==
    \/ Main_Construct
    \/ Actuator_Sends
    \/ Homing_Read
    \/ Cycle_Obtain
    \/ Cycle_CheckTilt
    \/ Cycle_Solve
    \/ Cycle_CheckAngles
    \/ Cycle_Dispatch

SpecMain == InitMain /\ [][NextMain]_vars

---------------------------------------------------------------------------
(* Claims about the orchestrator, under SpecMain *)

\* an actuator angle within the closed range [-pi/2, pi/2]
AngleInClosedRange(angle) == -(PI \div 2) <= angle /\ angle <= PI \div 2

\* a tilt magnitude (signed square) within the closed range [0, pi/12]
TiltInClosedRange(theta_rad) == 0 <= theta_rad /\ theta_rad <= SSq(PI \div 12)

\* C1: in every cycle and mode, an actuator angle outside [-pi/2, pi/2] halts
\* main before write_to_motors is called for that cycle; when every angle is
\* inside the closed range, the bounds included, the check passes and the set
\* is handed to write_to_motors.
C1_AngleBoundsCheck ==
    LET angles == main.abs_motor_angles
        all_inside == \A k \in 1 .. Len(angles) : AngleInClosedRange(angles[k])
    IN  /\ main.pc = "dispatch" => all_inside
        /\ (main.pc = "AssertionError" /\ main.halt_at = "angle") =>
              /\ ~all_inside
              /\ main.write_calls = main.cycles - 1
        /\ main.pc \in {"obtain", "SerialException"} =>
              /\ main.write_calls = main.cycles
              /\ main.cycles > 0 => (main.written = angles /\ all_inside)

\* a second cycle halted by pi/2 + epsilon beside an angle of exactly pi/2,
\* after a first cycle that dispatched
C1_Witness ==
    /\ main.pc = "AssertionError"
    /\ main.halt_at = "angle"
    /\ main.cycles = 2
    /\ main.write_calls = 1
    /\ main.abs_motor_angles = <<PI \div 2, PI \div 2 + 1>>

\* C2: in every cycle and mode, a tilt magnitude outside [0, pi/12] halts main
\* before the geometry solver is called and before anything is dispatched in
\* that cycle; a magnitude inside the range, 0 and pi/12 included, passes.
C2_TiltBoundsCheck ==
    /\ main.pc \in {"solve", "check_angles", "dispatch"} =>
          TiltInClosedRange(main.cmd[3])
    /\ main.pc \in {"check_tilt", "solve"} =>
          /\ main.solver_calls = main.cycles - 1
          /\ main.write_calls = main.cycles - 1
    /\ (main.pc = "AssertionError" /\ main.halt_at = "tilt") =>
          /\ ~TiltInClosedRange(main.cmd[3])
          /\ main.solver_calls = main.cycles - 1
          /\ main.write_calls = main.cycles - 1

\* a second cycle halted by a tilt just above pi/12, before the solver ran,
\* after a first cycle that ran the solver and dispatched
C2_Witness ==
    /\ main.pc = "AssertionError"
    /\ main.halt_at = "tilt"
    /\ main.cmd[3] = SSq(PI \div 12) + 1
    /\ main.cycles = 2
    /\ main.solver_calls = 1
    /\ main.write_calls = 1

\* the token decodes and, trimmed, is "HOME"
IsSentinel(token) == is_ascii(token) /\ strip(token) = <<72, 79, 77, 69>>

\* C3: main leaves AwaitingHome for Running only on a read whose token, trimmed,
\* equals "HOME"; after any other read it is still in AwaitingHome.
C3_HomingOnlyOnSentinel ==
    (main.entry = "AwaitingHome" /\ main.has_read) =>
        /\ main.pc \in RunningPcs => IsSentinel(main.homing_string)
        /\ ~IsSentinel(main.homing_string) => main.pc = "AwaitingHome"

\* C4: once the actuator controller has sent the sentinel (bare or surrounded
\* by whitespace) and main has read all of it, homing is completed.
C4_HandshakeCompletes ==
    (/\ main.entry = "AwaitingHome"
     /\ main.sent # <<>>
     /\ \A k \in 1 .. Len(main.sent) : IsSentinel(main.sent[k])
     /\ main.rx = <<>>) =>
        main.homing_completed

\* C5: main, started in any mode, gets through its initialization without
\* error: once past it, both objects exist and main is in AwaitingHome.
C5_InitCompletes ==
    (main.entry = "main" /\ main.pc # "main") =>
        /\ main.pc = "AwaitingHome"
        /\ controller # NoObject
        /\ ball_detector # NoObject

\* the steps of a cycle that dispatches, in the order of the claim
CycleOrder == <<"obtain", "check_tilt", "solve", "check_angles", "dispatch">>

\* the current cycle has handed an angle set to write_to_motors
HasDispatched == main.trace # <<>> /\ main.trace[Len(main.trace)] = "dispatch"

\* what holds in every state of main
C14_StateOrder ==
    /\ main.pc = "AwaitingHome" =>
          (main.write_calls = 0 /\ main.written = <<>> /\ main.trace = <<>>)
    /\ main.homing_completed => main.pc # "AwaitingHome"
    /\ Len(main.trace) <= Len(CycleOrder)
    /\ main.trace = SubSeq(CycleOrder, 1, Len(main.trace))
    /\ HasDispatched =>
          /\ TiltInClosedRange(main.cmd[3])
          /\ main.abs_motor_angles # <<>>
          /\ \A k \in 1 .. Len(main.abs_motor_angles) :
                 AngleInClosedRange(main.abs_motor_angles[k])
          /\ main.written = main.abs_motor_angles
          /\ main.solver_calls = main.cycles
          /\ main.write_calls = main.cycles
    /\ (main.cycles > 0 /\ ~HasDispatched) => main.write_calls = main.cycles - 1

\* what holds of every step of main
C14_StepOrder ==
    /\ main.pc \in RunningPcs => main'.pc # "AwaitingHome"
    /\ main'.write_calls # main.write_calls =>
          /\ main.pc = "dispatch"
          /\ main.trace = SubSeq(CycleOrder, 1, 4)
          /\ main'.write_calls = main.write_calls + 1
          /\ main'.cycles = main.cycles

\* C14: nothing is dispatched while main awaits homing; in the control loop a
\* dispatch comes, within its cycle, after the command was obtained, the tilt
\* check passed, the solver ran and the check of every angle passed, in that
\* order; a cycle dispatches at most once; main never goes back from the
\* control loop to awaiting homing.
C14_DispatchOrder == []C14_StateOrder /\ [][C14_StepOrder]_vars

\* a second cycle has dispatched, with both angles on the bounds
C14_Witness ==
    /\ main.cycles = 2
    /\ main.trace = CycleOrder
    /\ main.write_calls = 2
    /\ main.written = <<-(PI \div 2), PI \div 2>>
    /\ main.pc = "obtain"

\* C15: with the ball locator and the PID controller as the source of the
\* command, the tilt check of the cycle never fails: every magnitude calculate
\* returns, suppressed by the dead zone or not, is within [0, pi/12], since
\* it is at most SAT_MAX_DEGREES in radians, which is below pi/12.
C15_VisionTiltInRange ==
    main.operation_mode = "COMPUTER_VISION" =>
        /\ ~(main.pc = "AssertionError" /\ main.halt_at = "tilt")
        /\ calc.made =>
              /\ TiltInClosedRange(calc.ret[3])
              /\ calc.ret[3] <= radians(SSq(SAT_MAX_DEGREES))
        /\ radians(SSq(SAT_MAX_DEGREES)) < SSq(PI \div 12)

\* a second cycle in which the ball is off centre on both axes, the controller
\* saturates and the tilt check has passed with the saturation maximum
C15_Witness ==
    /\ main.operation_mode = "COMPUTER_VISION"
    /\ main.cycles = 2
    /\ main.pc = "solve"
    /\ calc.made
    /\ calc.e[1] # 0 /\ calc.e[2] # 0
    /\ calc.theta_mag_sq > SSq(SAT_MAX_DEGREES)
    /\ main.cmd[3] = radians(SSq(SAT_MAX_DEGREES))

\* what holds in every state of the control loop, by mode
C16_StateSources ==
    main.entry = "Running" =>
        /\ main.operation_mode = "COMPUTER_VISION" =>
              /\ main.locator_calls = main.cycles
              /\ calls = IF main.pc = "AttributeError"
                         THEN main.cycles - 1 ELSE main.cycles
              /\ (calc.made /\ main.pc # "AttributeError") =>
                    /\ calc.desired_pos = <<0, 0>>
                    /\ calc.actual_pos = loc.ret
                    /\ calc.n = 1
              /\ main.pc \in RunningPcs \ {"obtain"} => main.cmd = calc.ret
        /\ main.operation_mode # "COMPUTER_VISION" =>
              /\ main.locator_calls = 0
              /\ calls = 0
              /\ calc = NoCall
              /\ loc = NoCall
              /\ \E pid_mode \in PID_ModeNames, dead_zone \in BOOLEAN :
                     controller = Controller__init__(pid_mode, dead_zone)
              /\ ball_detector = BallDetector__init__(FALSE)

\* what holds of every step of the control loop, by mode
C16_StepSources ==
    /\ main.operation_mode # "COMPUTER_VISION" =>
          /\ controller' = controller
          /\ ball_detector' = ball_detector
          /\ calls' = calls
    /\ (main.operation_mode = "COMPUTER_VISION" /\ main.pc \in RunningPcs) =>
          /\ main'.locator_calls - main.locator_calls = main'.cycles - main.cycles
          /\ calls' - calls \in {0, 1}
          /\ calls' # calls => main'.locator_calls # main.locator_calls
          /\ main.pc # "obtain" =>
                (controller' = controller /\ ball_detector' = ball_detector /\ calls' = calls)

\* C16: a cycle of the control loop takes its command from the one source of
\* the mode.  In COMPUTER_VISION mode the locator is called once per cycle
\* and, with the position it returns, calculate once with desired position
\* (0,0); in a manual mode neither is called and the controller and the
\* detector (its last_ball_position) stay as they were.
C16_OneSourcePerCycle == []C16_StateSources /\ [][C16_StepSources]_vars

\* two manual cycles have dispatched and the controller and the detector are
\* as constructed
C16_Witness ==
    /\ main.operation_mode = "ARDUINO_JOYSTICK"
    /\ main.cycles = 2
    /\ main.write_calls = 2
    /\ main.cmd[3] = MIN_ANGLE_TO_MOVE
    /\ calls = 0
    /\ controller.int_x = 0
    /\ ball_detector.last_ball_position = Unset

\* main has ended on an exception other than the AssertionError of a bounds
\* check, after the ball locator was constructed
FailureExits == {"UnicodeDecodeError", "AttributeError", "SerialException"}

\* C11: when main ends on any path other than a bounds-check halt (here: an
\* exception of the actuator link, of the handshake decoding or of the locator
\* leaving main), the camera opened by the ball locator has been released:
\* the detector is as close_stream leaves it.
C11_CameraReleasedOnExit ==
    (main.pc \in FailureExits /\ ball_detector # NoObject) =>
        ball_detector.cap_open = close_stream(ball_detector).cap_open

---------------------------------------------------------------------------
(* Claims about Controller.calculate, under SpecPID *)

\* the two fractions are the components of a unit vector: one denominator,
\* the squares of the components add up to it
IsUnitVector(dir_x, dir_y) ==
    /\ dir_x[2] > 0
    /\ dir_y[2] = dir_x[2]
    /\ Abs(dir_x[1]) + Abs(dir_y[1]) = dir_x[2]

IsZeroVector(dir_x, dir_y) == dir_x[1] = 0 /\ dir_y[1] = 0

\* C6: every calculate call returns a direction that is a unit vector, or exactly
\* (0,0) if and only if the magnitude sqrt(ux^2+uy^2) before saturation is 0,
\* and a tilt magnitude in [0, SAT_MAX_DEGREES in radians].
C6_TiltCommandShape ==
    calc.made =>
        /\ (calc.theta_mag_sq = 0) <=> IsZeroVector(calc.ret[1], calc.ret[2])
        /\ calc.theta_mag_sq # 0 => IsUnitVector(calc.ret[1], calc.ret[2])
        /\ calc.ret[3] >= 0
        /\ calc.ret[3] <= radians(SSq(SAT_MAX_DEGREES))

\* a call whose control signal has two nonzero components and a magnitude that
\* is neither zero nor saturated
C6_Witness ==
    /\ calc.made
    /\ calc.u[1] # 0 /\ calc.u[2] # 0 /\ calc.u[1] # calc.u[2]
    /\ calc.ret[3] > 0
    /\ calc.ret[3] < radians(SSq(SAT_MAX_DEGREES))
    /\ IsUnitVector(calc.ret[1], calc.ret[2])

\* C7: on each axis the integral term that enters the control signal, ki times
\* the raw accumulator after clamping, is at most INTEGRAL_BOUND in absolute
\* value, however large the raw accumulator is.
C7_IntegralTermBounded ==
    calc.made =>
        \A k \in 1 .. 2 :
            /\ Abs(calc.i[k]) <= INTEGRAL_BOUND
            /\ Abs(calc.u[k] - calc.p[k] - calc.d[k]) <= INTEGRAL_BOUND

\* a call in which ki times the raw accumulator is beyond the bound on an axis
C7_Witness ==
    /\ calc.made
    /\ calc.raw_i[1] < -INTEGRAL_BOUND
    /\ calc.raw_i[2] > INTEGRAL_BOUND
    /\ calc.raw_i[1] = controller.ki * controller.int_x

\* C8: with dead-zone suppression on, a call whose saturated magnitude is below
\* MIN_ANGLE_TO_MOVE returns magnitude 0 with the direction as computed, and
\* prev_e_x, prev_e_y hold that call's error; with suppression off the
\* saturated magnitude is returned unchanged.
C8_DeadZone ==
    calc.made =>
        /\ (controller.dead_zone /\ calc.sat_theta_mag < MIN_ANGLE_TO_MOVE) =>
              /\ calc.ret[3] = 0
              /\ <<calc.ret[1], calc.ret[2]>> =
                     unit_vector(calc.u[1], calc.u[2], calc.theta_mag_sq)
              /\ controller.prev_e_x = calc.e[1]
              /\ controller.prev_e_y = calc.e[2]
        /\ ~controller.dead_zone => calc.ret[3] = calc.sat_theta_mag

\* a suppressed call: a nonzero saturated magnitude below the threshold, returned
\* as 0 with a unit direction
C8_Witness ==
    /\ calc.made
    /\ controller.dead_zone
    /\ calc.sat_theta_mag > 0
    /\ calc.sat_theta_mag < MIN_ANGLE_TO_MOVE
    /\ calc.ret[3] = 0
    /\ IsUnitVector(calc.ret[1], calc.ret[2])

\* C13: after any number of calculate calls on one controller, prev_e_x and
\* prev_e_y hold the error of the most recent call and int_x, int_y hold dt
\* times the sum of the errors of all the calls since construction (in tenths:
\* the sum itself), whether or not a call clamped its integral term, saturated
\* or was suppressed by the dead zone.
C13_AccumulatorIsRawSum ==
    calc.made =>
        /\ controller.prev_e_x = calc.e[1]
        /\ controller.prev_e_y = calc.e[2]
        /\ calc.e = <<calc.desired_pos[1] - calc.actual_pos[1],
                      calc.desired_pos[2] - calc.actual_pos[2]>>
        /\ controller.int_x = calc.sum_e[1]
        /\ controller.int_y = calc.sum_e[2]

\* two runs of calls have been made, the first of which began with a saturated
\* call; the last call clamped its integral term on the x axis, and the
\* accumulator is beyond the clamp
C13_Witness ==
    /\ calc.made
    /\ calls = 2
    /\ calc.n = RunLen
    /\ calc.raw_i[1] > INTEGRAL_BOUND
    /\ calc.i[1] = INTEGRAL_BOUND
    /\ controller.ki * controller.int_x > INTEGRAL_BOUND
    /\ controller.int_x = calc.sum_e[1]

\* the first call calculate((0,0), (1,0)) on a fresh PathPlanning controller
C10_Scenario ==
    /\ calc.made
    /\ calls = 1
    /\ calc.n = 1
    /\ \E dz \in BOOLEAN : calc.before = Controller__init__("PathPlanning", dz)
    /\ calc.desired_pos = <<0, 0>>
    /\ calc.actual_pos = <<1, 0>>

\* C10: in that scenario error = (-1,0), proportional = (-0.8,0), derivative =
\* (-12,0), raw integral = (-0.1,0), scaled integral term = (-0.01,0) unclamped,
\* u = (-12.81,0), the magnitude 12.81 saturates to 8.25 degrees, direction =
\* (-1,0), and the returned tilt is 8.25 degrees in radians.
C10_EndToEnd ==
    C10_Scenario =>
        /\ calc.e = <<-1, 0>>
        /\ calc.p = <<-800, 0>>
        /\ calc.d = <<-12000, 0>>
        /\ controller.int_x = -1 /\ controller.int_y = 0
        /\ calc.raw_i = <<-10, 0>>
        /\ calc.i = calc.raw_i
        /\ calc.u = <<-12810, 0>>
        /\ calc.theta_mag_sq = SSq(12810)
        /\ calc.theta_mag_sq > SSq(SAT_MAX_DEGREES)
        /\ calc.sat_theta_mag = radians(SSq(SAT_MAX_DEGREES))
        /\ calc.ret[1][1] = -calc.ret[1][2]
        /\ calc.ret[2][1] = 0
        /\ calc.ret[3] = radians(SSq(SAT_MAX_DEGREES))

C10_Witness == C10_Scenario /\ calc.u = <<-12810, 0>> /\ ~controller.dead_zone

---------------------------------------------------------------------------
(* Claims about the ball locator, under SpecLocator *)

\* C9: with memory on, a detection miss returns exactly the position returned
\* by the most recent successful detection; with memory off, every detection
\* miss returns (0,0), whatever was detected before.
C9_MissPolicy ==
    (loc.made /\ loc.raised = "" /\ ~loc.detected) =>
        /\ (ball_detector.memory /\ loc.last_success # Unset) =>
              loc.ret = loc.last_success
        /\ ~ball_detector.memory => loc.ret = <<0, 0>>
        /\ ball_detector = loc.before

\* a miss with memory on, after a detection away from the centre that followed
\* another one: the remembered position is returned
C9_Witness ==
    /\ loc.made /\ loc.raised = "" /\ ~loc.detected
    /\ ball_detector.memory
    /\ loc.last_success # Unset
    /\ loc.last_success # <<0, 0>>
    /\ loc.ret = loc.last_success

\* C12: a call of the locator goes on to the detection only after a camera
\* read has delivered a frame: a read that reports no frame is followed by
\* another read, so the last read the call made is one that delivered a frame,
\* the detection runs on that frame, never on a missing one, and no error
\* comes of it.
C12_FrameAcquisitionRetries ==
    loc.made =>
        /\ loc.reads[Len(loc.reads)] = <<"True", loc.frame>>
        /\ loc.frame # NoFrame
        /\ loc.raised = ""

\* the last call ran the detection on a frame and found no circle
IsMiss == loc.made /\ loc.frame # NoFrame /\ ~loc.detected

\* C17: with memory on, a miss before any successful detection raises no error
\* and returns the plate position of the zero pixel offset, the remembered
\* value being (0,0) from construction; with memory off a miss does not read
\* last_ball_position (it raises nothing even while the attribute does not
\* exist); no miss changes last_ball_position.
C17_MissBeforeAnySuccess ==
    IsMiss =>
        /\ loc.raised = ""
        /\ ball_detector.last_ball_position = loc.before.last_ball_position
        /\ (ball_detector.memory /\ loc.last_success = Unset) =>
              /\ loc.before.last_ball_position = <<0, 0>>
              /\ loc.ret = camera_view_to_plate_view(
                               scale_pixels_to_centimeters(<<0, 0>>, RES_HEIGHT))
              /\ loc.ret = <<0, 0>>
        /\ ~ball_detector.memory => loc.ret = <<0, 0>>

\* a miss with memory on before any detection has succeeded
C17_Witness ==
    /\ IsMiss
    /\ ball_detector.memory
    /\ loc.last_success = Unset
    /\ loc.raised = ""
    /\ loc.ret = <<0, 0>>
    /\ ball_detector.last_ball_position = <<0, 0>>

====
